---- MODULE Spec2Model ----
(***************************************************************************)
(* netctl2iwd: conversion of netctl wireless profiles into iwd network     *)
(* files.  The module models src/src/networks.rs (the Network value, its   *)
(* file name and its iwd configuration) and src/src/convert.rs (the        *)
(* profile parser, the per-file conversion and the batch loop) and states  *)
(* the properties claimed of them.                                         *)
(*                                                                         *)
(* A Rust String is a sequence of Unicode code points; a byte string is a  *)
(* sequence of numbers in 0..255.  Map keys and section names are TLA+      *)
(* strings; NameBytes gives the bytes of those that are written to a file. *)
(***************************************************************************)
EXTENDS Integers, Sequences, FiniteSets, TLC

VARIABLES
    files,      \* the output directory: file name -> [mode, content (bytes), creator]
    pc,         \* per invocation: the position reached in convert_files/convert
    inputs,     \* per invocation: the list of input files given to convert_files
    idx,        \* per invocation: the index in inputs of the file being converted
    network,    \* per invocation: the Network parse_network returned
    writes,     \* per invocation: the write calls write_to has still to make
    output,     \* per invocation: the open destination file and its position
    result,     \* per invocation: what the running convert call returns
    log,        \* per invocation: the lines convert_files has printed
    p_input,    \* parser check: the reader handed to parse_network
    p_result,   \* parser check: what parse_network returned
    n_pair,     \* network check: two Network values
    n_out       \* network check: their file names and configurations

vars == <<files, pc, inputs, idx, network, writes, output, result, log,
          p_input, p_result, n_pair, n_out>>

(***************************************************************************)
(* String literals of the source, as code points.                          *)
(***************************************************************************)
\* "wireless"
Str_wireless == <<119, 105, 114, 101, 108, 101, 115, 115>>
\* "invalid"
Str_invalid == <<105, 110, 118, 97, 108, 105, 100>>
\* "none"
Str_none == <<110, 111, 110, 101>>
\* "wpa"
Str_wpa == <<119, 112, 97>>
\* ".open"
Str_ext_open == <<46, 111, 112, 101, 110>>
\* ".psk"
Str_ext_psk == <<46, 112, 115, 107>>
\* "="
Str_eq == <<61>>
\* "-_ "
Str_safe_punct == <<45, 95, 32>>
\* the double-quote character
Chr_quote == 34
\* "0123456789abcdef", the alphabet of hex::encode
HexDigits == <<48, 49, 50, 51, 52, 53, 54, 55, 56, 57, 97, 98, 99, 100, 101, 102>>

\* The empty map (HashMap::new()).
EmptyMap == [k \in {} |-> <<>>]

\* Option<T>: None, or Some(v) as a one-element sequence.
None == <<>>
Some(v) == <<v>>

\* Result<T, E>
Ok(v) == [ok |-> v]
Err(e) == [err |-> e]
IsOk(r) == "ok" \in DOMAIN r
IsErr(r) == "err" \in DOMAIN r

(***************************************************************************)
(* src/src/networks.rs                                                     *)
(***************************************************************************)
PSKSecurity_Password(s) == [tag |-> "Password", value |-> s]
PSKSecurity_PSK(s) == [tag |-> "PSK", value |-> s]

Security_Open == [tag |-> "Open"]
Security_PSK(inner) == [tag |-> "PSK", psk |-> inner]

get_extension(security) ==
    IF security.tag = "Open" THEN Str_ext_open ELSE Str_ext_psk

\* char::is_ascii_alphanumeric: '0'..'9', 'A'..'Z', 'a'..'z'
is_ascii_alphanumeric(c) ==
    (c >= 48 /\ c <= 57) \/ (c >= 65 /\ c <= 90) \/ (c >= 97 /\ c <= 122)

\* str::contains(char)
str_contains(s, c) == \E i \in 1..Len(s) : s[i] = c

\* The variant of is_safe_char that leaves the space out of the safe set.
is_safe_char_no_space(c) ==
    is_ascii_alphanumeric(c) \/ str_contains(<<45, 95>>, c)

is_safe_char(c) ==
    is_ascii_alphanumeric(c) \/ str_contains(Str_safe_punct, c)

\* The UTF-8 encoding of one code point.
utf8_char(c) ==
    IF c < 128 THEN <<c>>
    ELSE IF c < 2048 THEN <<192 + (c \div 64), 128 + (c % 64)>>
    ELSE IF c < 65536
         THEN <<224 + (c \div 4096), 128 + ((c \div 64) % 64), 128 + (c % 64)>>
         ELSE <<240 + (c \div 262144), 128 + ((c \div 4096) % 64),
                128 + ((c \div 64) % 64), 128 + (c % 64)>>

\* String::as_bytes: the UTF-8 bytes of a string.
RECURSIVE as_bytes(_)
as_bytes(s) ==
    IF s = <<>> THEN <<>> ELSE utf8_char(Head(s)) \o as_bytes(Tail(s))

\* hex::encode: two lowercase hexadecimal digits per byte.
RECURSIVE hex_encode(_)
hex_encode(bytes) ==
    IF bytes = <<>> THEN <<>>
    ELSE <<HexDigits[(Head(bytes) \div 16) + 1], HexDigits[(Head(bytes) % 16) + 1]>>
         \o hex_encode(Tail(bytes))

Network_new(ssid, security) == [ssid |-> ssid, security |-> security]

iwd_file_name(self) ==
    LET name == IF \A i \in 1..Len(self.ssid) : is_safe_char(self.ssid[i])
                THEN self.ssid
                ELSE Str_eq \o hex_encode(as_bytes(self.ssid))
    IN  name \o get_extension(self.security)

\* The iteration count and the length of the derived key.
PBKDF2_ROUNDS == 4096
PSK_LEN == 32

(***************************************************************************)
(* pbkdf2::<Hmac<Sha1>> is the pbkdf2 crate's PBKDF2-HMAC-SHA1.  Its       *)
(* values at 4096 rounds and 32 output bytes are tabulated here for every  *)
(* (password, salt) pair the model derives a key for; the first entry is   *)
(* the vector of tests::test_compute_psk.                                  *)
(***************************************************************************)
Pbkdf2HmacSha1Vectors ==
    { [password |-> <<98, 97, 114, 95, 112, 97, 115, 115, 119, 111, 114, 100>>,
       salt |-> <<102, 111, 111, 95, 110, 101, 116, 119, 111, 114, 107>>,
       dk |-> <<144, 177, 147, 170, 236, 20, 70, 99, 10, 235, 29, 28, 36, 25, 31, 88, 14, 3, 227, 228, 213, 146, 181, 182, 130, 177, 87, 160, 79, 162, 105, 86>>],
      [password |-> <<112, 119>>,
       salt |-> <<102, 111, 111, 95, 110, 101, 116, 119, 111, 114, 107>>,
       dk |-> <<157, 252, 32, 224, 98, 215, 9, 125, 243, 162, 170, 221, 0, 174, 88, 94, 63, 83, 44, 104, 4, 153, 140, 250, 165, 141, 99, 99, 160, 254, 188, 30>>],
      [password |-> <<98, 97, 114, 95, 112, 97, 115, 115, 119, 111, 114, 100>>,
       salt |-> <<110, 101, 116>>,
       dk |-> <<67, 159, 190, 57, 71, 9, 227, 161, 66, 108, 116, 197, 165, 56, 92, 2, 203, 165, 129, 173, 155, 96, 41, 13, 22, 198, 185, 192, 189, 117, 8, 9>>],
      [password |-> <<112, 119>>,
       salt |-> <<110, 101, 116>>,
       dk |-> <<73, 148, 153, 193, 233, 95, 133, 68, 192, 254, 73, 127, 55, 159, 184, 193, 167, 105, 158, 225, 38, 74, 150, 73, 93, 181, 106, 236, 16, 221, 89, 24>>],
      [password |-> <<98, 97, 114, 95, 112, 97, 115, 115, 119, 111, 114, 100>>,
       salt |-> <<97, 63>>,
       dk |-> <<158, 54, 159, 40, 202, 69, 47, 59, 90, 174, 226, 97, 248, 0, 44, 30, 10, 93, 8, 99, 172, 196, 184, 158, 124, 127, 4, 114, 16, 142, 218, 130>>],
      [password |-> <<112, 119>>,
       salt |-> <<97, 63>>,
       dk |-> <<128, 216, 251, 208, 71, 21, 65, 9, 30, 158, 213, 117, 72, 180, 134, 227, 205, 236, 66, 104, 55, 64, 226, 232, 243, 37, 198, 229, 184, 68, 210, 195>>],
      [password |-> <<98, 97, 114, 95, 112, 97, 115, 115, 119, 111, 114, 100>>,
       salt |-> <<76, 101, 105, 100, 101, 110, 32, 85, 110, 105, 118, 101, 114, 115, 105, 116, 121>>,
       dk |-> <<237, 163, 192, 197, 7, 6, 138, 103, 198, 238, 80, 209, 212, 215, 81, 255, 44, 182, 134, 1, 182, 226, 20, 227, 167, 181, 11, 123, 188, 202, 127, 210>>],
      [password |-> <<112, 119>>,
       salt |-> <<76, 101, 105, 100, 101, 110, 32, 85, 110, 105, 118, 101, 114, 115, 105, 116, 121>>,
       dk |-> <<26, 48, 232, 179, 143, 109, 198, 100, 153, 229, 165, 125, 156, 184, 98, 249, 247, 136, 58, 194, 3, 246, 6, 23, 183, 179, 100, 216, 96, 178, 28, 248>>],
      [password |-> <<98, 97, 114, 95, 112, 97, 115, 115, 119, 111, 114, 100>>,
       salt |-> <<>>,
       dk |-> <<114, 78, 161, 102, 213, 4, 90, 162, 85, 193, 14, 221, 216, 241, 18, 202, 88, 69, 233, 238, 68, 160, 120, 29, 195, 145, 141, 68, 69, 135, 52, 224>>],
      [password |-> <<112, 119>>,
       salt |-> <<>>,
       dk |-> <<151, 49, 91, 64, 16, 39, 231, 120, 196, 81, 121, 170, 27, 133, 96, 238, 80, 58, 200, 153, 74, 224, 103, 55, 248, 35, 195, 253, 225, 161, 33, 159>>] }
pbkdf2_hmac_sha1(password, salt, rounds, len) ==
    IF rounds = 4096 /\ len = 32
    THEN (CHOOSE v \in Pbkdf2HmacSha1Vectors :
              v.password = password /\ v.salt = salt).dk
    ELSE CHOOSE dk \in {} : TRUE

compute_psk(ssid, passphrase) ==
    pbkdf2_hmac_sha1(passphrase, ssid, PBKDF2_ROUNDS, PSK_LEN)

\* Ini::new(): a document with no section.
Ini_new == EmptyMap

\* config.with_section(Some(section)).set(key, value): the section is created
\* when absent, and the key is inserted or its value replaced.
Ini_set(config, section, key, value) ==
    LET props == IF section \in DOMAIN config THEN config[section] ELSE EmptyMap
        props2 == [k \in (DOMAIN props) \cup {key} |->
                      IF k = key THEN value ELSE props[k]]
    IN  [s \in (DOMAIN config) \cup {section} |->
            IF s = section THEN props2 ELSE config[s]]

\* config.get_from(Some(section), key)
Ini_get_from(config, section, key) ==
    IF section \in DOMAIN config /\ key \in DOMAIN config[section]
    THEN Some(config[section][key]) ELSE None

\* write_config with the passphrase written alone, without the derived key.
write_config_no_psk(self, config) ==
    IF self.security.tag = "Open" THEN config
    ELSE IF self.security.psk.tag = "PSK"
         THEN Ini_set(config, "Security", "PreSharedKey", self.security.psk.value)
         ELSE Ini_set(config, "Security", "Passphrase", self.security.psk.value)

write_config(self, config) ==
    IF self.security.tag = "Open" THEN config
    ELSE IF self.security.psk.tag = "PSK"
         THEN Ini_set(config, "Security", "PreSharedKey", self.security.psk.value)
         ELSE LET passphrase == self.security.psk.value
                  psk == compute_psk(as_bytes(self.ssid), as_bytes(passphrase))
              IN  Ini_set(Ini_set(config, "Security", "Passphrase", passphrase),
                          "Security", "PreSharedKey", hex_encode(psk))

(***************************************************************************)
(* src/src/convert.rs: errors and the profile parser                       *)
(***************************************************************************)
\* ConversionError.  ParseError carries the ini error's text, which no
\* decision of the program reads; the model keeps the variant alone.
ConversionError ==
    {"ParseError", "NotWireless", "MissingKeys", "MissingSSID", "Unsupported",
     "PermissionDenied", "FileExists", "OSError"}

\* impl From<ini::ini::Error> for ConversionError
From_ini_Error(ini_error) == "ParseError"

\* impl From<io::Error> for ConversionError; io_error is the error's kind().
From_io_Error(io_error) ==
    IF io_error = "PermissionDenied" THEN "PermissionDenied"
    ELSE IF io_error = "AlreadyExists" THEN "FileExists"
    ELSE "OSError"

\* HashMap::get
map_get(m, key) == IF key \in DOMAIN m THEN Some(m[key]) ELSE None

\* Option::map_or(default, |s| s.as_str())
map_or(opt, default) == IF opt = None THEN default ELSE opt[1]

\* str::chars().next()
first_char(s) == IF s = <<>> THEN None ELSE Some(Head(s))

\* get_quoted_string with the quoting rule the other way round: a value is
\* "quoted" when it starts with a double quote.
get_quoted_string_natural(config, key) ==
    IF key \in DOMAIN config
    THEN LET contents == config[key]
             quoted == first_char(contents) = Some(Chr_quote)
         IN  IF quoted THEN Ok(<<Tail(contents), TRUE>>)
             ELSE Ok(<<contents, FALSE>>)
    ELSE Err("MissingKeys")

get_quoted_string(config, key) ==
    IF key \in DOMAIN config
    THEN LET contents == config[key]
             quoted == first_char(contents) # Some(Chr_quote)
         IN  IF quoted THEN Ok(<<contents, TRUE>>)
             ELSE Ok(<<SubSeq(contents, 2, Len(contents)), FALSE>>)
    ELSE Err("MissingKeys")

(***************************************************************************)
(* Ini::read_from(input) reads the whole input and parses it.  A reader is *)
(* what File::open returned: a directory, whose read fails with an I/O     *)
(* error that read_from returns as an ini error; a file whose text is not  *)
(* a key/value document; a document with no entry before its first section *)
(* header (an empty file, say), which parses to an Ini without a general   *)
(* section; or a profile, given by the general section's entries for the   *)
(* four keys the program reads.                                            *)
(***************************************************************************)
Ini_read_from(input) ==
    IF input.kind = "directory" THEN Err("Io")
    ELSE IF input.kind = "malformed" THEN Err("Parse")
    ELSE IF input.kind = "nosection" THEN Ok([general |-> None])
    ELSE Ok([general |-> Some(input.doc)])

\* A panic, which unwinds out of convert and convert_files and ends the
\* process.
Panic(message) == [panic |-> message]
IsPanic(r) == "panic" \in DOMAIN r

\* Ini::general_section(): the ini crate's
\* section(None).expect("There is no general section in this Ini").
general_section(ini) ==
    IF ini.general = None THEN Panic("There is no general section in this Ini")
    ELSE Ok(ini.general[1])

\* The security of a wireless profile (the match on "Security").
parse_security(contents) ==
    LET sec == map_or(map_get(contents, "Security"), Str_none)
    IN  IF sec = Str_none THEN Ok(Security_Open)
        ELSE IF sec = Str_wpa
             THEN LET got == get_quoted_string(contents, "Key")
                  IN  IF IsErr(got) THEN got
                      ELSE IF got.ok[2]
                           THEN Ok(Security_PSK(PSKSecurity_Password(got.ok[1])))
                           ELSE Ok(Security_PSK(PSKSecurity_PSK(got.ok[1])))
             ELSE Err("Unsupported")

\* The ESSID of a profile whose security is resolved.
parse_essid(contents, security) ==
    IF "ESSID" \in DOMAIN contents
    THEN Ok(Network_new(contents["ESSID"], security))
    ELSE Err("MissingSSID")

\* parse_network without the check of Connection.
parse_network_any_connection(input) ==
    LET read == Ini_read_from(input)
    IN  IF IsErr(read) THEN Err(From_ini_Error(read.err))
        ELSE LET section == general_section(read.ok)
             IN  IF IsPanic(section) THEN section
                 ELSE LET contents == section.ok
                          security == parse_security(contents)
                      IN  IF IsErr(security) THEN security
                          ELSE parse_essid(contents, security.ok)

parse_network(input) ==
    LET read == Ini_read_from(input)
    IN  IF IsErr(read) THEN Err(From_ini_Error(read.err))
        ELSE LET section == general_section(read.ok)
             IN  IF IsPanic(section) THEN section
                 ELSE LET contents == section.ok
                      IN  IF map_or(map_get(contents, "Connection"), Str_invalid)
                                 # Str_wireless
                          THEN Err("NotWireless")
                          ELSE LET security == parse_security(contents)
                               IN  IF IsErr(security) THEN security
                                   ELSE parse_essid(contents, security.ok)

(***************************************************************************)
(* The file system, as far as convert uses it                              *)
(***************************************************************************)
\* Permissions::from_mode(0o600)
MODE_OWNER_RW == 384
\* The mode OpenOptions creates a file with (0o666), before the umask.
MODE_CREATE_DEFAULT == 438

\* The bitwise and of two naturals.
RECURSIVE bit_and(_, _)
bit_and(a, b) ==
    IF a = 0 \/ b = 0 THEN 0
    ELSE (a % 2) * (b % 2) + 2 * bit_and(a \div 2, b \div 2)

\* File::open(path), for reading: the path may not exist, may not be readable,
\* or is opened (a directory opens too; reading it is what fails).
File_open(f) ==
    IF f.kind = "missing" THEN Err("NotFound")
    ELSE IF f.kind = "unreadable" THEN Err("PermissionDenied")
    ELSE Ok(f)

\* OpenOptions::new().write(true).create(true): the file is created when it
\* is absent and opened as it is when it exists.
open_create(dir, path, umask, creator) ==
    IF path \in DOMAIN dir THEN Ok(dir)
    ELSE Ok([f \in (DOMAIN dir) \cup {path} |->
               IF f = path
               THEN [mode |-> MODE_CREATE_DEFAULT - bit_and(MODE_CREATE_DEFAULT, umask),
                     content |-> <<>>, creator |-> creator]
               ELSE dir[f]])

\* OpenOptions::new().write(true).create_new(true).open(path): O_CREAT|O_EXCL.
\* The directory lookup and the creation are one atomic step; an existing
\* path fails with AlreadyExists.  A file is its mode and its bytes; creator
\* records the call that made it (<<>> for a file that was there before).
open_create_new(dir, path, umask, creator) ==
    IF path \in DOMAIN dir THEN Err("AlreadyExists")
    ELSE Ok([f \in (DOMAIN dir) \cup {path} |->
               IF f = path
               THEN [mode |-> MODE_CREATE_DEFAULT - bit_and(MODE_CREATE_DEFAULT, umask),
                     content |-> <<>>, creator |-> creator]
               ELSE dir[f]])

\* The error kinds open can fail with whether or not the destination exists:
\* the output directory may not be searched or written (EACCES), is not there
\* (ENOENT), or the file system refuses (EIO, EROFS, ENOSPC, ...).
OpenFailures == {"PermissionDenied", "NotFound", "Other"}

\* The error kinds File::set_permissions (fchmod) can fail with: EPERM, or
\* EIO, EROFS and the like.
SetPermissionsFailures == {"PermissionDenied", "Other"}

\* The error kinds a write on the open file can fail with: EPERM (the file
\* was made immutable) or EACCES (a network file system), or ENOSPC, EFBIG,
\* EIO and the like.
WriteFailures == {"PermissionDenied", "Other"}

\* File::set_permissions on the open file.
set_permissions(dir, path, mode) ==
    [dir EXCEPT ![path] = [@ EXCEPT !.mode = mode]]

\* write(2) of bytes at a position of a file: the bytes replace what is there
\* from the position on and extend the file past its end.
write_at(content, pos, bytes) ==
    [i \in 1..(IF pos + Len(bytes) > Len(content) THEN pos + Len(bytes)
               ELSE Len(content)) |->
        IF i > pos /\ i <= pos + Len(bytes) THEN bytes[i - pos] ELSE content[i]]

\* File::write on the open file.
file_write(dir, path, pos, bytes) ==
    [dir EXCEPT ![path] = [@ EXCEPT !.content = write_at(@, pos, bytes)]]

(***************************************************************************)
(* Ini::write_to, as convert uses it                                       *)
(*                                                                         *)
(* The destination is an unbuffered File, so every piece the serializer    *)
(* formats is one write_all on it: "[", the section name and "]\n" for a   *)
(* section, the key, "=", the value and "\n" for a property.  Sections and *)
(* properties are kept in hash maps, whose iteration order is any order.   *)
(***************************************************************************)
\* The names write_config uses, as bytes: "Security", "Passphrase",
\* "PreSharedKey".
NameBytes ==
    [Security |-> <<83, 101, 99, 117, 114, 105, 116, 121>>,
     Passphrase |-> <<80, 97, 115, 115, 112, 104, 114, 97, 115, 101>>,
     PreSharedKey |-> <<80, 114, 101, 83, 104, 97, 114, 101, 100, 75, 101, 121>>]

\* '[', ']', '=', '\n', '\\'
Chr_open == 91
Chr_close == 93
Chr_equals == 61
Chr_newline == 10
Chr_backslash == 92

\* escape_str: a backslash is doubled; NUL, line feed, carriage return and
\* tab are written \0, \n, \r and \t; the other control characters and the
\* characters from U+007F to U+FFFF are written \x and four hexadecimal
\* digits; every other character is kept.
escape_char(c) ==
    IF c = Chr_backslash THEN <<Chr_backslash, Chr_backslash>>
    ELSE IF c = 0 THEN <<Chr_backslash, 48>>
    ELSE IF c = Chr_newline THEN <<Chr_backslash, 110>>
    ELSE IF c = 13 THEN <<Chr_backslash, 114>>
    ELSE IF c = 9 THEN <<Chr_backslash, 116>>
    ELSE IF c < 32 \/ (c >= 127 /\ c < 65536)
         THEN <<Chr_backslash, 120,
                HexDigits[(c \div 4096) + 1], HexDigits[((c \div 256) % 16) + 1],
                HexDigits[((c \div 16) % 16) + 1], HexDigits[(c % 16) + 1]>>
         ELSE utf8_char(c)

RECURSIVE escape_str(_)
escape_str(s) ==
    IF s = <<>> THEN <<>> ELSE escape_char(Head(s)) \o escape_str(Tail(s))

\* The orders a hash map's keys are iterated in.
IterationOrders(S) ==
    {o \in [1..Cardinality(S) -> S] : \A i, j \in DOMAIN o : o[i] = o[j] => i = j}

\* The write calls of one property and of the properties of a section in a
\* given order.
property_writes(key, value) ==
    <<escape_str(NameBytes[key]), <<Chr_equals>>, escape_str(value), <<Chr_newline>>>>

RECURSIVE properties_writes(_, _)
properties_writes(props, order) ==
    IF order = <<>> THEN <<>>
    ELSE property_writes(Head(order), props[Head(order)])
         \o properties_writes(props, Tail(order))

\* The write calls of write_to for a document with at most one section (all
\* write_config makes), its properties in a given order; none for the empty
\* document.
write_to(document, order) ==
    IF DOMAIN document = {} THEN <<>>
    ELSE LET section == CHOOSE s \in DOMAIN document : TRUE
         IN  <<<<Chr_open>>, escape_str(NameBytes[section]),
               <<Chr_close, Chr_newline>>>>
             \o properties_writes(document[section], order)

\* The orders write_to may take for a document.
WriteOrders(document) ==
    IF DOMAIN document = {} THEN {<<>>}
    ELSE IterationOrders(DOMAIN document[CHOOSE s \in DOMAIN document : TRUE])

\* All the bytes of a sequence of write calls.
RECURSIVE concat(_)
concat(calls) == IF calls = <<>> THEN <<>> ELSE Head(calls) \o concat(Tail(calls))

(***************************************************************************)
(* The inputs of the model                                                 *)
(***************************************************************************)
\* The longest list of input files given to one convert_files call.
MaxInputs == 2
\* The longest list given to each of two convert_files calls that run at the
\* same time on one output directory.
MaxRaceInputs == 1
\* The longest Key value of the profiles the parser is checked on.
MaxKeyLen == 2
\* The longest generated SSID of the networks the file name is checked on.
MaxSsidLen == 2

\* Two invocations of the program.
Invocations == {"A", "B"}

\* The umask of an invocation: 0o022 or 0o077.
Umasks == {18, 63}

\* All strings over an alphabet, of one length and up to a length.
RECURSIVE StringsOfLen(_, _)
StringsOfLen(alphabet, n) ==
    IF n = 0 THEN {<<>>}
    ELSE {Append(s, c) : s \in StringsOfLen(alphabet, n - 1), c \in alphabet}

StringsUpTo(alphabet, n) == UNION {StringsOfLen(alphabet, k) : k \in 0..n}

\* All sequences over a set, up to a length.
SeqsUpTo(S, n) == UNION {[1..k -> S] : k \in 0..n}

\* A general section holding at most the four keys the program reads.
Field(key, opt) == IF opt = None THEN EmptyMap ELSE [k \in {key} |-> opt[1]]
Profile(connection, security, key, essid) ==
    [kind |-> "profile",
     doc |-> Field("Connection", connection) @@ Field("Security", security)
             @@ Field("Key", key) @@ Field("ESSID", essid)]
NoProfile(kind) == [kind |-> kind, doc |-> EmptyMap]

\* "ethernet", "wep", "net", "a?", "pw", "Wireless", "WPA"
Str_ethernet == <<101, 116, 104, 101, 114, 110, 101, 116>>
Str_wep == <<119, 101, 112>>
Str_net == <<110, 101, 116>>
Str_a_qm == <<97, 63>>
Str_pw == <<112, 119>>
Str_Wireless == <<87, 105, 114, 101, 108, 101, 115, 115>>
Str_WPA == <<87, 80, 65>>
\* the raw key "ab, written with its leading double quote
Str_raw_ab == <<34, 97, 98>>
\* "old"
Str_old == <<111, 108, 100>>

\* The input files of the conversions, by name.
InputFile ==
    [missing  |-> NoProfile("missing"),
     secret   |-> NoProfile("unreadable"),
     dir      |-> NoProfile("directory"),
     garbage  |-> NoProfile("malformed"),
     empty    |-> NoProfile("nosection"),
     eth      |-> Profile(Some(Str_ethernet), Some(Str_wpa), Some(Str_pw), Some(Str_net)),
     wep      |-> Profile(Some(Str_wireless), Some(Str_wep), Some(Str_pw), Some(Str_net)),
     nokey    |-> Profile(Some(Str_wireless), Some(Str_wpa), None, Some(Str_net)),
     nossid   |-> Profile(Some(Str_wireless), Some(Str_wpa), Some(Str_pw), None),
     home     |-> Profile(Some(Str_wireless), Some(Str_wpa), Some(Str_pw), Some(Str_net)),
     home_raw |-> Profile(Some(Str_wireless), Some(Str_wpa), Some(Str_raw_ab), Some(Str_net)),
     cafe     |-> Profile(Some(Str_wireless), None, None, Some(Str_a_qm))]

InputNames == DOMAIN InputFile
\* The inputs of a batch: all but the passphrase profile, whose file is the
\* longest; the raw-key profile is the batch's network with a key.
BatchNames == InputNames \ {"home"}
\* The inputs of the two simultaneous invocations: converted by both, the
\* raw-key profile is written to net.psk by one of them; the open network
\* goes elsewhere.
RaceNames == {"home_raw", "cafe"}
\* The inputs of an invocation that runs beside the conversion of the
\* passphrase profile: none, or the raw-key profile of the same network.
BesideNames == {"home_raw"}

\* A file that is in the output directory before any conversion, holding
\* "[Security]\nPreSharedKey=old\n".
OldFile ==
    [mode |-> 420,
     content |-> concat(write_to(Ini_set(Ini_new, "Security", "PreSharedKey", Str_old),
                                 <<"PreSharedKey">>)),
     creator |-> <<>>]
OldFileName == Str_net \o Str_ext_psk
OutputDirs == {EmptyMap, [f \in {OldFileName} |-> OldFile]}

\* The readers the parser is checked on.
ConnectionValues == {Str_wireless, Str_ethernet, Str_Wireless, <<>>}
SecurityValues == {Str_none, Str_wpa, Str_wep, Str_WPA, <<>>}
KeyValues == StringsUpTo({Chr_quote, 97}, MaxKeyLen)
EssidValues == {Str_net, Str_a_qm, <<>>}
Opt(S) == {None} \cup {Some(v) : v \in S}
Readers ==
    {NoProfile("directory"), NoProfile("malformed"), NoProfile("nosection")} \cup
    {Profile(c, s, k, e) : c \in Opt(ConnectionValues), s \in Opt(SecurityValues),
                           k \in Opt(KeyValues), e \in Opt(EssidValues)}

\* The networks the file name and the configuration are checked on.
\* "foo_network", "bar_password", "Leiden University",
\* "With illegal characters?", "=3f"
Str_foo_network == <<102, 111, 111, 95, 110, 101, 116, 119, 111, 114, 107>>
Str_bar_password == <<98, 97, 114, 95, 112, 97, 115, 115, 119, 111, 114, 100>>
Str_Leiden == <<76, 101, 105, 100, 101, 110, 32, 85, 110, 105, 118, 101, 114, 115, 105, 116, 121>>
Str_illegal == <<87, 105, 116, 104, 32, 105, 108, 108, 101, 103, 97, 108, 32, 99, 104, 97, 114, 97, 99, 116, 101, 114, 115, 63>>
Str_eq3f == <<61, 51, 102>>
\* 'a', ' ', '?', U+00E9
SsidAlphabet == {97, 32, 63, 233}
NamedSsids == {Str_foo_network, Str_net, Str_a_qm, Str_Leiden, Str_illegal, Str_eq3f}
Ssids == StringsUpTo(SsidAlphabet, MaxSsidLen) \cup NamedSsids
\* The (SSID, passphrase) pairs PBKDF2 is tabulated for.
VectorSsids == {Str_foo_network, Str_net, Str_a_qm, Str_Leiden, <<>>}
VectorPassphrases == {Str_bar_password, Str_pw}
Networks ==
    {Network_new(s, Security_Open) : s \in Ssids} \cup
    {Network_new(s, Security_PSK(PSKSecurity_PSK(SubSeq(Str_raw_ab, 2, 3)))) : s \in Ssids} \cup
    {Network_new(s, Security_PSK(PSKSecurity_Password(p))) :
        s \in VectorSsids, p \in VectorPassphrases}

(***************************************************************************)
(* src/src/convert.rs: convert and convert_files                           *)
(*                                                                         *)
(* An invocation runs convert_files over its list of inputs; convert is    *)
(* one step per system call, so that two invocations interleave as two     *)
(* processes do.  pc is "loop" at the head of the for loop, "parse" with   *)
(* the input open, "create" with the Network parsed and the configuration  *)
(* built, "chmod" and "write" with the destination open, "report" with     *)
(* convert returned, "done" after the loop, and "panicked" when the        *)
(* process has ended by a panic.                                           *)
(***************************************************************************)
convertVars == <<files, pc, inputs, idx, network, writes, output, result, log>>
unitVars == <<p_input, p_result, n_pair, n_out>>

\* The input file convert is running on, and the call's identity.
CurrentName(p) == inputs[p][idx[p]]
CurrentInput(p) == InputFile[CurrentName(p)]
CurrentCall(p) == <<p, idx[p]>>

\* output_path: the destination of the network an invocation has parsed.
output_path(p) == iwd_file_name(network[p][1])

\* The statement that follows the creation of the destination, were the
\* permissions not restricted first.
after_create_write == "write"

\* The statement after OpenOptions::open: set_permissions.
after_create == "chmod"

\* convert returns r: its locals are dropped, the destination closed.
Return(p, r) ==
    /\ result' = [result EXCEPT ![p] = Some(r)]
    /\ pc' = [pc EXCEPT ![p] = "report"]
    /\ writes' = [writes EXCEPT ![p] = <<>>]
    /\ output' = [output EXCEPT ![p] = None]

\* for file in input { convert(file, ..) }: File::open(input)?
ConvertOpen(p) ==
    /\ pc[p] = "loop"
    /\ idx[p] <= Len(inputs[p])
    /\ LET opened == File_open(CurrentInput(p))
       IN  IF IsErr(opened)
           THEN Return(p, Err(From_io_Error(opened.err)))
           ELSE /\ pc' = [pc EXCEPT ![p] = "parse"]
                /\ UNCHANGED <<result, writes, output>>
    /\ UNCHANGED <<files, inputs, idx, network, log>>
    /\ UNCHANGED unitVars

\* parse_network(&mut input)?, then the output path and the configuration:
\* write_config fills the document, whose hash maps fix the order write_to
\* will take.
ConvertParse(p) ==
    /\ pc[p] = "parse"
    /\ LET parsed == parse_network(CurrentInput(p))
       IN  IF IsPanic(parsed)
           THEN /\ pc' = [pc EXCEPT ![p] = "panicked"]
                /\ UNCHANGED <<network, result, writes, output>>
           ELSE IF IsErr(parsed)
           THEN Return(p, parsed) /\ UNCHANGED network
           ELSE /\ network' = [network EXCEPT ![p] = Some(parsed.ok)]
                /\ \E order \in WriteOrders(write_config(parsed.ok, Ini_new)) :
                      writes' = [writes EXCEPT ![p] =
                                    write_to(write_config(parsed.ok, Ini_new), order)]
                /\ pc' = [pc EXCEPT ![p] = "create"]
                /\ UNCHANGED <<result, output>>
    /\ UNCHANGED <<files, inputs, idx, log>>
    /\ UNCHANGED unitVars

\* OpenOptions::new().write(true).create_new(true).open(output_path)?
ConvertCreate(p) ==
    /\ pc[p] = "create"
    /\ \E umask \in Umasks :
          LET opened == open_create_new(files, output_path(p), umask, CurrentCall(p))
          IN  IF IsErr(opened)
              THEN Return(p, Err(From_io_Error(opened.err)))
                   /\ UNCHANGED files
              ELSE /\ files' = opened.ok
                   /\ output' = [output EXCEPT ![p] =
                                    Some([path |-> output_path(p), pos |-> 0])]
                   /\ pc' = [pc EXCEPT ![p] = after_create]
                   /\ UNCHANGED <<result, writes>>
    /\ UNCHANGED <<inputs, idx, network, log>>
    /\ UNCHANGED unitVars

\* The same call refused by the system, whether or not the destination is
\* there: nothing is created and nothing opened.
ConvertCreateFails(p) ==
    /\ pc[p] = "create"
    /\ \E kind \in OpenFailures : Return(p, Err(From_io_Error(kind)))
    /\ UNCHANGED <<files, inputs, idx, network, log>>
    /\ UNCHANGED unitVars

\* output.set_permissions(Permissions::from_mode(0o600))?
ConvertSetPermissions(p) ==
    /\ pc[p] = "chmod"
    /\ files' = set_permissions(files, output[p][1].path, MODE_OWNER_RW)
    /\ pc' = [pc EXCEPT ![p] = "write"]
    /\ UNCHANGED <<inputs, idx, network, writes, output, result, log>>
    /\ UNCHANGED unitVars

\* The same call refused by the system: convert returns, the file is closed
\* as it is.
ConvertSetPermissionsFails(p) ==
    /\ pc[p] = "chmod"
    /\ \E kind \in SetPermissionsFailures : Return(p, Err(From_io_Error(kind)))
    /\ UNCHANGED <<files, inputs, idx, network, log>>
    /\ UNCHANGED unitVars

\* config.write_to(&mut output)?: one write call taking all the bytes it was
\* given, which write_all then returns from.
ConvertWrite(p) ==
    /\ pc[p] = "write"
    /\ writes[p] # <<>>
    /\ files' = file_write(files, output[p][1].path, output[p][1].pos, Head(writes[p]))
    /\ output' = [output EXCEPT ![p] = Some([@[1] EXCEPT !.pos = @ + Len(Head(writes[p]))])]
    /\ writes' = [writes EXCEPT ![p] = Tail(@)]
    /\ UNCHANGED <<pc, inputs, idx, network, result, log>>
    /\ UNCHANGED unitVars

\* A write call taking only the first n of the bytes it was given (the file
\* system is nearly full, or the file at its size limit): write_all goes on
\* with the rest.
ConvertWriteShort(p) ==
    /\ pc[p] = "write"
    /\ writes[p] # <<>>
    /\ \E n \in 1..(Len(Head(writes[p])) - 1) :
          /\ files' = file_write(files, output[p][1].path, output[p][1].pos,
                                 SubSeq(Head(writes[p]), 1, n))
          /\ output' = [output EXCEPT ![p] = Some([@[1] EXCEPT !.pos = @ + n])]
          /\ writes' = [writes EXCEPT ![p] =
                           <<SubSeq(Head(@), n + 1, Len(Head(@)))>> \o Tail(@)]
    /\ UNCHANGED <<pc, inputs, idx, network, result, log>>
    /\ UNCHANGED unitVars

\* A write call failing: write_to returns the error, which convert returns
\* by its kind; the file keeps what was written before.
ConvertWriteFails(p) ==
    /\ pc[p] = "write"
    /\ writes[p] # <<>>
    /\ \E kind \in WriteFailures : Return(p, Err(From_io_Error(kind)))
    /\ UNCHANGED <<files, inputs, idx, network, log>>
    /\ UNCHANGED unitVars

\* write_to has made its last write: Ok(())
ConvertOk(p) ==
    /\ pc[p] = "write"
    /\ writes[p] = <<>>
    /\ Return(p, Ok("unit"))
    /\ UNCHANGED <<files, inputs, idx, network, log>>
    /\ UNCHANGED unitVars

\* The match in convert_files: one line printed for the file, then on.
Report(p) ==
    /\ pc[p] = "report"
    /\ log' = [log EXCEPT ![p] =
                  Append(@, [file |-> CurrentName(p),
                             outcome |-> IF IsOk(result[p][1]) THEN "Ok"
                                         ELSE result[p][1].err])]
    /\ pc' = [pc EXCEPT ![p] = "loop"]
    /\ idx' = [idx EXCEPT ![p] = @ + 1]
    /\ network' = [network EXCEPT ![p] = None]
    /\ result' = [result EXCEPT ![p] = None]
    /\ UNCHANGED <<files, inputs, writes, output>>
    /\ UNCHANGED unitVars

\* The same println! when standard output cannot be written to: println!
\* panics, and the process ends with the line not printed.
ReportFails(p) ==
    /\ pc[p] = "report"
    /\ pc' = [pc EXCEPT ![p] = "panicked"]
    /\ UNCHANGED <<files, inputs, idx, network, writes, output, result, log>>
    /\ UNCHANGED unitVars

\* The iterator is exhausted: convert_files returns.
Finish(p) ==
    /\ pc[p] = "loop"
    /\ idx[p] > Len(inputs[p])
    /\ pc' = [pc EXCEPT ![p] = "done"]
    /\ UNCHANGED <<files, inputs, idx, network, writes, output, result, log>>
    /\ UNCHANGED unitVars

UnitIdle ==
    /\ p_input = None
    /\ p_result = None
    /\ n_pair = None
    /\ n_out = None

ConvertIdle ==
    /\ files = EmptyMap
    /\ pc = [p \in Invocations |-> "done"]
    /\ inputs = [p \in Invocations |-> <<>>]
    /\ idx = [p \in Invocations |-> 1]
    /\ network = [p \in Invocations |-> None]
    /\ writes = [p \in Invocations |-> <<>>]
    /\ output = [p \in Invocations |-> None]
    /\ result = [p \in Invocations |-> None]
    /\ log = [p \in Invocations |-> <<>>]

\* One invocation over any list of the batch inputs; or one invocation over
\* a list while the other converts one file, with the same destination or
\* another; or the conversion of the passphrase profile, alone or beside
\* another of the same network.
Init ==
    /\ files \in OutputDirs
    /\ \/ \E l \in SeqsUpTo(BatchNames, MaxInputs) :
             inputs = [p \in Invocations |-> IF p = "A" THEN l ELSE <<>>]
       \/ \E l \in SeqsUpTo(RaceNames, MaxRaceInputs), n \in RaceNames :
             inputs = [p \in Invocations |-> IF p = "A" THEN l ELSE <<n>>]
       \/ \E l \in {<<>>} \cup {<<n>> : n \in BesideNames} :
             inputs = [p \in Invocations |-> IF p = "A" THEN <<"home">> ELSE l]
    /\ pc = [p \in Invocations |-> "loop"]
    /\ idx = [p \in Invocations |-> 1]
    /\ network = [p \in Invocations |-> None]
    /\ writes = [p \in Invocations |-> <<>>]
    /\ output = [p \in Invocations |-> None]
    /\ result = [p \in Invocations |-> None]
    /\ log = [p \in Invocations |-> <<>>]
    /\ UnitIdle

Next ==
    \E p \in Invocations :
        \/ ConvertOpen(p)
        \/ ConvertParse(p)
        \/ ConvertCreate(p)
        \/ ConvertCreateFails(p)
        \/ ConvertSetPermissions(p)
        \/ ConvertSetPermissionsFails(p)
        \/ ConvertWrite(p)
        \/ ConvertWriteShort(p)
        \/ ConvertWriteFails(p)
        \/ ConvertOk(p)
        \/ Report(p)
        \/ ReportFails(p)
        \/ Finish(p)

Spec == Init /\ [][Next]_vars

(***************************************************************************)
(* parse_network on its own, over every reader                             *)
(***************************************************************************)
InitParse ==
    /\ p_input \in {Some(r) : r \in Readers}
    /\ p_result = None
    /\ n_pair = None
    /\ n_out = None
    /\ ConvertIdle

Parse ==
    /\ p_input # None
    /\ p_result = None
    /\ p_result' = Some(parse_network(p_input[1]))
    /\ UNCHANGED <<p_input, n_pair, n_out>>
    /\ UNCHANGED convertVars

NextParse == Parse

SpecParse == InitParse /\ [][NextParse]_vars

(***************************************************************************)
(* iwd_file_name and write_config on their own, over pairs of networks     *)
(***************************************************************************)
InitNetwork ==
    /\ n_pair \in {Some(<<a, b>>) : a \in Networks, b \in Networks}
    /\ n_out = [names |-> None, config |-> None]
    /\ p_input = None
    /\ p_result = None
    /\ ConvertIdle

\* The file names of both networks.
FileNames ==
    /\ n_pair # None
    /\ n_out.names = None
    /\ n_out' = [n_out EXCEPT
                   !.names = Some(<<iwd_file_name(n_pair[1][1]),
                                    iwd_file_name(n_pair[1][2])>>)]
    /\ UNCHANGED <<n_pair, p_input, p_result>>
    /\ UNCHANGED convertVars

\* The configuration of the first, written into Ini::new().
WriteConfig ==
    /\ n_pair # None
    /\ n_out.config = None
    /\ n_out' = [n_out EXCEPT !.config = Some(write_config(n_pair[1][1], Ini_new))]
    /\ UNCHANGED <<n_pair, p_input, p_result>>
    /\ UNCHANGED convertVars

NextNetwork == FileNames \/ WriteConfig

SpecNetwork == InitNetwork /\ [][NextNetwork]_vars

(***************************************************************************)
(* Properties                                                              *)
(***************************************************************************)
\* A step of invocation p: every action moves its pc or makes a write call.
Steps(p) == pc'[p] # pc[p] \/ writes'[p] # writes[p]

\* Whether a is the beginning of b.
IsPrefix(a, b) == Len(a) <= Len(b) /\ SubSeq(b, 1, Len(a)) = a

\* The errors a convert whose destination exists may return: FileExists from
\* the exclusive creation, or the error of an open the system refused before
\* it looked for the file.
ExistingDestinationErrors == {"FileExists", "PermissionDenied", "OSError"}

\* What C1 says of every step, for a set of errors a convert whose
\* destination exists may return: such a convert returns one of them and
\* changes no file; no file is removed or created anew; the bytes of a file
\* only change by the call that created it writing at the file's end, so that
\* no byte once written is overwritten; and no two calls have one destination
\* open.
ExclusiveCreate(errors) ==
    /\ \A p \in Invocations :
          (pc[p] = "create" /\ Steps(p) /\ output_path(p) \in DOMAIN files)
              => /\ result'[p] # None
                 /\ IsErr(result'[p][1])
                 /\ result'[p][1].err \in errors
                 /\ files' = files
    /\ \A f \in DOMAIN files :
          /\ f \in DOMAIN files'
          /\ files'[f].creator = files[f].creator
          /\ files'[f].content # files[f].content
                => /\ IsPrefix(files[f].content, files'[f].content)
                   /\ \E p \in Invocations :
                         /\ pc[p] = "write" /\ Steps(p)
                         /\ output[p][1].path = f
                         /\ output[p][1].pos = Len(files[f].content)
                         /\ files[f].creator = CurrentCall(p)
    /\ \A p, q \in Invocations :
          (output'[p] # None /\ output'[q] # None
              /\ output'[p][1].path = output'[q][1].path) => p = q

\* C1 as stated: a convert whose destination exists returns FileExists and
\* leaves the file unchanged; of two conversions to one destination at most
\* one creates and writes the file, and no content is overwritten.
C1_ExistingGivesFileExists == [][ExclusiveCreate({"FileExists"})]_vars

\* C1 amended: a convert whose destination exists fails, with FileExists or,
\* when the system refuses the open itself, with PermissionDenied or OSError,
\* and leaves the file unchanged; of two conversions to one destination at
\* most one creates and writes the file, and no content is overwritten.
C1_ExclusiveCreate == [][ExclusiveCreate(ExistingDestinationErrors)]_vars

\* Two conversions to one destination: one has the file open and has written
\* to it, the other has returned FileExists.
C1_Witness ==
    \E p, q \in Invocations :
        /\ p # q
        /\ result[p] = Some(Err("FileExists"))
        /\ output[q] # None
        /\ output[q][1].path = output_path(p)
        /\ files[output[q][1].path].content # <<>>

\* The error parse_network is to return on each of the input files that is
\* not a wireless profile with its fields in order.
ExpectedParseError ==
    [garbage |-> "ParseError", eth |-> "NotWireless", wep |-> "Unsupported",
     nokey |-> "MissingKeys", nossid |-> "MissingSSID"]

\* C2: on an input whose parsing fails, no step of convert changes the output
\* directory (no file is created, removed or written), no destination is
\* opened, and convert returns the parse error.
C2_ParseFailureCreatesNothing ==
    [][ \A p \in Invocations :
           (Steps(p) /\ idx[p] <= Len(inputs[p])
                     /\ CurrentName(p) \in DOMAIN ExpectedParseError)
               => /\ files' = files
                  /\ output'[p] = None
                  /\ pc'[p] \notin {"create", "chmod", "write"}
                  /\ (pc[p] = "parse" \/ pc'[p] = "report")
                        => /\ pc'[p] = "report"
                           /\ result'[p] = Some(Err(ExpectedParseError[CurrentName(p)]))
      ]_vars

\* A non-wireless profile has been converted and reported, and the output
\* directory holds the one file it held before.
C2_Witness ==
    \E p \in Invocations :
        /\ Len(log[p]) >= 1
        /\ log[p][1] = [file |-> "eth", outcome |-> "NotWireless"]
        /\ DOMAIN files = {OldFileName}
        /\ files[OldFileName] = OldFile

\* C3: a file created by convert has mode 0600 whenever it has content, the
\* writes start on a file of mode 0600, and a convert whose set_permissions
\* fails returns with the file still empty.
C3_PermissionsBeforeContent ==
    [][ /\ \A f \in DOMAIN files' :
              (files'[f].creator # <<>> /\ files'[f].content # <<>>)
                  => files'[f].mode = 384
        /\ \A p \in Invocations :
              /\ pc'[p] = "write" => files'[output'[p][1].path].mode = 384
              /\ (pc[p] = "chmod" /\ pc'[p] = "report")
                    => /\ files' = files
                       /\ files[output[p][1].path].content = <<>>
                       /\ IsErr(result'[p][1])
      ]_vars

\* One created file has content and mode 0600; another, whose permissions
\* could not be restricted, is empty with the mode it was created with.
C3_Witness ==
    /\ \E f \in DOMAIN files :
          /\ files[f].creator # <<>>
          /\ files[f].content # <<>>
          /\ files[f].mode = 384
    /\ \E f \in DOMAIN files :
          /\ files[f].creator # <<>>
          /\ files[f].mode = 420
          /\ files[f].content = <<>>
          /\ \E p \in Invocations :
                /\ files[f].creator[1] = p
                /\ Len(log[p]) >= files[f].creator[2]
                /\ log[p][files[f].creator[2]].outcome \in {"PermissionDenied", "OSError"}

\* C5: convert_files runs convert once on every input, in the order of the
\* list, whatever the outcomes: the lines printed are those of the inputs in
\* order, the invocation ends only with every input attempted, and a file
\* whose conversion was reported successful is never removed or changed.
C5_BatchContinues ==
    [][ /\ \A p \in Invocations :
              /\ Len(log'[p]) <= Len(inputs'[p])
              /\ \A i \in 1..Len(log'[p]) : log'[p][i].file = inputs'[p][i]
              /\ idx'[p] = Len(log'[p]) + 1
              /\ pc'[p] = "done" => idx'[p] = Len(inputs'[p]) + 1
              /\ pc'[p] = "panicked" => idx'[p] = Len(inputs'[p])
        /\ \A f \in DOMAIN files :
              /\ f \in DOMAIN files'
              /\ (/\ files[f].creator # <<>>
                  /\ Len(log[files[f].creator[1]]) >= files[f].creator[2]
                  /\ log[files[f].creator[1]][files[f].creator[2]].outcome = "Ok")
                    => files'[f] = files[f]
      ]_vars

\* C10: a failure to open or to read the input is reported as
\* PermissionDenied when the system denied permission and as OSError
\* otherwise, never as ParseError.
C10_IoFailureKinds ==
    \A p \in Invocations :
        \A i \in 1..Len(log[p]) :
            LET kind == InputFile[inputs[p][i]].kind
            IN  kind \in {"missing", "unreadable", "directory"}
                   => log[p][i].outcome =
                         IF kind = "unreadable" THEN "PermissionDenied" ELSE "OSError"

\* The document parse_network was given, when it was given one.
ParsedDoc == p_input[1].doc
Parsed == p_result # None /\ p_input[1].kind = "profile"
IsWireless(doc) == "Connection" \in DOMAIN doc /\ doc["Connection"] = Str_wireless

\* C4: a well-formed document whose Connection is absent or is not "wireless"
\* yields NotWireless, whatever its Security, Key and ESSID.
C4_NotWirelessFirst ==
    (/\ p_result # None
     /\ \/ p_input[1].kind = "nosection"
        \/ p_input[1].kind = "profile" /\ ~IsWireless(ParsedDoc))
        => (IsErr(p_result[1]) /\ p_result[1].err = "NotWireless")

\* C6: a Network returned by parse_network has a non-empty ssid.
C6_SsidNotEmpty ==
    (p_result # None /\ IsOk(p_result[1])) => Len(p_result[1].ok.ssid) >= 1

\* The security parse_network is to resolve for a wireless profile, or the
\* error it is to fail with, from the Security and Key fields.
ExpectedSecurity(doc) ==
    IF "Security" \notin DOMAIN doc \/ doc["Security"] = <<110, 111, 110, 101>>
    THEN Ok([tag |-> "Open"])
    ELSE IF doc["Security"] # <<119, 112, 97>> THEN Err("Unsupported")
    ELSE IF "Key" \notin DOMAIN doc THEN Err("MissingKeys")
    ELSE IF Len(doc["Key"]) >= 1 /\ doc["Key"][1] = 34
         THEN Ok([tag |-> "PSK",
                  psk |-> [tag |-> "PSK", value |-> Tail(doc["Key"])]])
         ELSE Ok([tag |-> "PSK",
                  psk |-> [tag |-> "Password", value |-> doc["Key"]]])

\* C7: for a wireless profile, Security absent or "none" gives Open; "wpa"
\* with a Key that does not start with a double quote gives Password(Key);
\* with a Key that starts with one gives the raw key, the quote dropped; with
\* no Key fails with MissingKeys; any other Security fails with Unsupported.
C7_SecurityResolution ==
    (Parsed /\ IsWireless(ParsedDoc))
        => LET expected == ExpectedSecurity(ParsedDoc)
           IN  IF IsErr(expected)
               THEN IsErr(p_result[1]) /\ p_result[1].err = expected.err
               ELSE IF "ESSID" \in DOMAIN ParsedDoc
                    THEN /\ IsOk(p_result[1])
                         /\ p_result[1].ok.security = expected.ok
                         /\ p_result[1].ok.ssid = ParsedDoc["ESSID"]
                    ELSE IsErr(p_result[1]) /\ p_result[1].err = "MissingSSID"

\* A wpa profile whose Key is "a (a quote, then a) has been parsed to the raw
\* key a.
C7_Witness ==
    /\ Parsed
    /\ IsWireless(ParsedDoc)
    /\ "Key" \in DOMAIN ParsedDoc
    /\ ParsedDoc["Key"] = <<34, 97>>
    /\ IsOk(p_result[1])
    /\ p_result[1].ok.security.tag = "PSK"
    /\ p_result[1].ok.security.psk = [tag |-> "PSK", value |-> <<97>>]

\* The file name a network is to get: the SSID when all its characters are
\* ASCII letters, digits, '-', '_' or ' ', else '=' and the lowercase
\* hexadecimal of its bytes; then ".open" or ".psk".
SafeCodePoints == (48..57) \cup (65..90) \cup (97..122) \cup {45, 95, 32}
LowerHexDigit(d) == IF d < 10 THEN 48 + d ELSE 87 + d
ExpectedHex(bytes) ==
    [i \in 1..(2 * Len(bytes)) |->
        IF i % 2 = 1 THEN LowerHexDigit(bytes[(i + 1) \div 2] \div 16)
        ELSE LowerHexDigit(bytes[i \div 2] % 16)]
ExpectedFileName(n) ==
    (IF \A i \in 1..Len(n.ssid) : n.ssid[i] \in SafeCodePoints
     THEN n.ssid
     ELSE <<61>> \o ExpectedHex(as_bytes(n.ssid)))
    \o (IF n.security.tag = "Open" THEN <<46, 111, 112, 101, 110>>
        ELSE <<46, 112, 115, 107>>)

\* C8: iwd_file_name is the expected file name, and two networks get the same
\* file name exactly when they have the same SSID and the same kind of
\* security.
C8_FileName ==
    n_out.names # None
        => LET a == n_pair[1][1]
               b == n_pair[1][2]
               names == n_out.names[1]
           IN  /\ names[1] = ExpectedFileName(a)
               /\ names[2] = ExpectedFileName(b)
               /\ (names[1] = names[2])
                     <=> (a.ssid = b.ssid /\ a.security.tag = b.security.tag)

\* The names of tests::test_iwd_file_name: "Leiden University.open" and
\* "=5769746820696c6c6567616c20636861726163746572733f.open".
C8_Witness ==
    /\ n_out.names # None
    /\ n_pair[1][1].ssid = Str_Leiden
    /\ n_pair[1][2].ssid = Str_illegal
    /\ n_out.names[1][1] =
          <<76, 101, 105, 100, 101, 110, 32, 85, 110, 105, 118, 101, 114, 115, 105,
            116, 121, 46, 111, 112, 101, 110>>
    /\ n_out.names[1][2] =
          <<61, 53, 55, 54, 57, 55, 52, 54, 56, 50, 48, 54, 57, 54, 99, 54, 99, 54,
            53, 54, 55, 54, 49, 54, 99, 50, 48, 54, 51, 54, 56, 54, 49, 55, 50, 54,
            49, 54, 51, 55, 52, 54, 53, 55, 50, 55, 51, 51, 102, 46, 111, 112, 101,
            110>>

\* FOO_PSK of the tests:
\* "90b193aaec1446630aeb1d1c24191f580e03e3e4d592b5b682b157a04fa26956"
Str_FOO_PSK ==
    <<57, 48, 98, 49, 57, 51, 97, 97, 101, 99, 49, 52, 52, 54, 54, 51, 48, 97, 101,
      98, 49, 100, 49, 99, 50, 52, 49, 57, 49, 102, 53, 56, 48, 101, 48, 51, 101,
      51, 101, 52, 100, 53, 57, 50, 98, 53, 98, 54, 56, 50, 98, 49, 53, 55, 97, 48,
      52, 102, 97, 50, 54, 57, 53, 54>>

\* C9: write_config into an empty document leaves it empty for Open, makes a
\* Security section with PreSharedKey alone for a raw key, and one with the
\* Passphrase and the PreSharedKey, the hexadecimal of the 32 derived bytes,
\* for a passphrase.
C9_WriteConfig ==
    n_out.config # None
        => LET n == n_pair[1][1]
               config == n_out.config[1]
           IN  IF n.security.tag = "Open" THEN DOMAIN config = {}
               ELSE /\ DOMAIN config = {"Security"}
                    /\ IF n.security.psk.tag = "PSK"
                       THEN /\ DOMAIN config["Security"] = {"PreSharedKey"}
                            /\ config["Security"]["PreSharedKey"] = n.security.psk.value
                       ELSE LET derived == compute_psk(as_bytes(n.ssid),
                                                       as_bytes(n.security.psk.value))
                            IN  /\ DOMAIN config["Security"] = {"Passphrase", "PreSharedKey"}
                                /\ config["Security"]["Passphrase"] = n.security.psk.value
                                /\ Len(derived) = 32
                                /\ config["Security"]["PreSharedKey"] = ExpectedHex(derived)
                                /\ (n.ssid = Str_foo_network
                                      /\ n.security.psk.value = Str_bar_password)
                                     => config["Security"]["PreSharedKey"] = Str_FOO_PSK

\* The configuration of tests::test_write_config.
C9_Witness ==
    /\ n_out.config # None
    /\ n_pair[1][1] = [ssid |-> Str_foo_network,
                       security |-> [tag |-> "PSK",
                                     psk |-> [tag |-> "Password",
                                              value |-> Str_bar_password]]]
    /\ Ini_get_from(n_out.config[1], "Security", "Passphrase") = Some(Str_bar_password)
    /\ Ini_get_from(n_out.config[1], "Security", "PreSharedKey") = Some(Str_FOO_PSK)

====
